---- MODULE Spec2Model ----
(***************************************************************************)
(* The sized slab allocator of slab-alloc (src/slab-alloc/src/lib.rs):     *)
(* SizedSlabAlloc with its freelist, counters and working-set driven       *)
(* reclamation, together with the collaborators it calls (the intrusive    *)
(* list, the slab family, the working set and the backing allocator).      *)
(***************************************************************************)
EXTENDS Integers, Sequences, FiniteSets, TLC

\* lib.rs:104
WORKING_PERIOD_SECONDS == 15

\* Bounds of the model.
MaxSlabs == 3            \* slabs the backing allocator can have outstanding
MaxObjectsPerSlab == 3   \* N ranges over 1..MaxObjectsPerSlab
MaxOutstanding == 3      \* objects the caller holds at once
MaxTime == 16            \* seconds a window or an idle period is followed for
ObjSize == 2             \* layout.size() of the objects, in bytes
MaxSize == 8             \* object sizes a builder is given: 1..MaxSize
MaxAlignExp == 3         \* alignments of types and layouts: 2^0..2^MaxAlignExp
MaxAlignInput == 9       \* align() is called with 0..MaxAlignInput
MaxMaxAlign == 130       \* build_backing is called with max_align 1..MaxMaxAlign
MaxLog == 9              \* powers of two are looked for up to 2^MaxLog

\* lib.rs:105
OBJECTS_PER_SLAB == 8

\* *PAGE_SIZE (lib.rs:99-102), scaled down with the object sizes
PageSize == 4

\* Seconds the clock may advance by in one step: sums give 14, 15 and 16.
TickSteps == {7, 8}

NULL == 0
SlabIds == 1..MaxSlabs

VARIABLES
    freelist,               \* SizedSlabAlloc.freelist: slab ids, head first
    total_slabs,            \* SizedSlabAlloc.total_slabs
    num_full,               \* SizedSlabAlloc.num_full
    refcnt,                 \* SizedSlabAlloc.refcnt
    full_slab_working_set,  \* SizedSlabAlloc.full_slab_working_set: [min, elapsed]
    slabs,                  \* slab_system: the header of every slab id
    objects_per_slab,       \* N of the slab family, fixed at construction
    init_system,            \* the initialization policy: "init" or "nop"
    idle,                   \* seconds since the caller last called alloc
    alive,                  \* the allocator has not been dropped
    constructions,          \* per slot of a live slab: times it was constructed
    panicking,              \* std::thread::panicking() as drop saw it
    outstanding,            \* the pointers the caller currently holds
    last,                   \* what the last operation did and returned
    cycle,                  \* how far the caller is in the basic cycle
    window_min_num_full,    \* least num_full after an operation in this window
    builder                 \* the builder, and the allocator built from it

vars == <<freelist, total_slabs, num_full, refcnt, full_slab_working_set, slabs,
          objects_per_slab, init_system, idle, alive, panicking, constructions,
          outstanding, last, cycle, window_min_num_full, builder>>

-----------------------------------------------------------------------------
(* util::list::LinkedList: an intrusive doubly linked list of slabs.       *)

size(l) == Len(l)

peek_front(l) == IF Len(l) = 0 THEN NULL ELSE Head(l)

peek_back(l) == IF Len(l) = 0 THEN NULL ELSE l[Len(l)]

insert_front(l, s) == <<s>> \o l

insert_back(l, s) == Append(l, s)

remove_front(l) == IF Len(l) = 0 THEN l ELSE Tail(l)

remove_back(l) == IF Len(l) = 0 THEN l ELSE SubSeq(l, 1, Len(l) - 1)

remove(l, s) == SelectSeq(l, LAMBDA x : x # s)

move_to_back(l, s) == Append(remove(l, s), s)

-----------------------------------------------------------------------------
(* util::workingset::WorkingSet: the minimum observed over a window.       *)
(* The monotonic clock is read only as the time since the window began,    *)
(* so the working set carries that duration: `elapsed`, in seconds.        *)

\* new: a window that begins now, with minimum v
ws_new(v) == [min |-> v, elapsed |-> 0]

\* set: begins a new window with initial minimum v
ws_set(ws, v) == [min |-> v, elapsed |-> 0]

\* update_min: records min(current minimum, v)
ws_update_min(ws, v) == [ws EXCEPT !.min = IF v < @ THEN v ELSE @]

\* refresh: Some(min) and a new window when the window has lasted `period`.
ws_refresh(ws, period) ==
    IF ws.elapsed >= period
    THEN [some |-> TRUE, val |-> ws.min, ws |-> [ws EXCEPT !.elapsed = 0]]
    ELSE [some |-> FALSE, val |-> 0, ws |-> ws]

\* the clock advances by d seconds
ws_tick(ws, d) == [ws EXCEPT !.elapsed = @ + d]

-----------------------------------------------------------------------------
(* The slab family (aligned::System): headers, slot stack, init bitmap.    *)

HeaderSize == 1

\* The backing region of a slab: header, then MaxObjectsPerSlab slots.
SlabSize == HeaderSize + MaxObjectsPerSlab * ObjSize

SlabBase(s) == s * SlabSize

\* slot address = base + slot_region_start + i * size
SlotAddr(s, i) == SlabBase(s) + HeaderSize + i * ObjSize

\* pointer -> slab: the pointer with its low bits masked off
SlabOf(p) == p \div SlabSize

\* slot index = (obj - slot_region_start) / size
SlotIndexOf(p) == (p - SlabBase(SlabOf(p)) - HeaderSize) \div ObjSize

\* A slab id that is not backed by memory.
DeadSlab == [live |-> FALSE, stack |-> <<>>, init |-> {}]

\* A freshly carved slab: the stack pops 0, 1, 2, ...; all init bits 0.
NewSlab(n) == [live |-> TRUE, stack |-> [k \in 1..n |-> k - 1], init |-> {}]

free_count(sl, s) == Len(sl[s].stack)

\* is_full: all objects are available for allocation
is_full(sl, n, s) == free_count(sl, s) = n

\* is_empty: no objects are available for allocation
is_empty(sl, s) == free_count(sl, s) = 0

LiveSlabs(sl) == {s \in SlabIds : sl[s].live}

\* SlabSystem::alloc_slab: a region from the backing allocator, or null.
system_alloc_slab(sl, n, backing_ok) ==
    LET free == SlabIds \ LiveSlabs(sl) IN
    IF backing_ok /\ free # {}
    THEN LET s == CHOOSE x \in free : \A y \in free : x <= y
         IN  [slab |-> s, slabs |-> [sl EXCEPT ![s] = NewSlab(n)]]
    ELSE [slab |-> NULL, slabs |-> sl]

\* SlabSystem::dealloc_slab: the region goes back to the backing allocator.
system_dealloc_slab(sl, s) ==
    IF s \in SlabIds THEN [sl EXCEPT ![s] = DeadSlab] ELSE sl

\* alloc that reads the top index and leaves it on the stack
system_alloc_no_pop(sl, s) ==
    LET i == Head(sl[s].stack) IN
    [obj |-> SlotAddr(s, i),
     status |-> i \in sl[s].init,
     slabs |-> [sl EXCEPT ![s].init = @ \ {i}]]

\* SlabSystem::alloc: pop an index, report its init bit and clear it.
system_alloc(sl, s) ==
    LET i == Head(sl[s].stack) IN
    [obj |-> SlotAddr(s, i),
     status |-> i \in sl[s].init,
     slabs |-> [sl EXCEPT ![s].stack = Tail(@), ![s].init = @ \ {i}]]

\* SlabSystem::dealloc: find the slab, push the index, set the init bit.
system_dealloc(sl, obj, status) ==
    LET s == SlabOf(obj)
        i == SlotIndexOf(obj)
    IN  [slab |-> s,
         was_empty |-> is_empty(sl, s),
         slabs |-> [sl EXCEPT ![s].stack = <<i>> \o @,
                              ![s].init = IF status THEN @ \cup {i} ELSE @]]

\* InitSystem::status_initialized of the policy
status_initialized(policy) == policy = "init"

\* Every address a slot can have.
Addrs == {SlotAddr(s, i) : s \in SlabIds, i \in 0..(MaxObjectsPerSlab - 1)}

\* InitSystem::init(obj, init_status): a constructing policy constructs the
\* object unless it is cached; cons counts the constructions per address.
init_system_init(cons, policy, obj, status) ==
    IF policy = "init" /\ ~status THEN [cons EXCEPT ![obj] = @ + 1] ELSE cons

-----------------------------------------------------------------------------
(* SizedSlabAlloc.  An operation works on a record `c` of the allocator's  *)
(* fields, extended with what the operation did to its collaborators:      *)
(* backing_calls and backing_refused (requests to the backing allocator    *)
(* and how many it refused), released (the slabs handed back, each with    *)
(* what held of it at that moment), gc_ran (garbage_collect_slabs was      *)
(* called), gc_min (the minimum refresh returned, -1 for None) and         *)
(* update_min_with (the value update_min was called with, -1 if it was not *)
(* called).                                                                *)

Self ==
    [freelist |-> freelist, total_slabs |-> total_slabs, num_full |-> num_full,
     refcnt |-> refcnt, ws |-> full_slab_working_set, slabs |-> slabs,
     init_system |-> init_system, constructions |-> constructions,
     backing_calls |-> 0, backing_refused |-> 0, released |-> <<>>,
     gc_ran |-> FALSE, gc_min |-> -1, update_min_with |-> -1]

\* SizedSlabAlloc::new
new ==
    [freelist |-> <<>>, total_slabs |-> 0, num_full |-> 0, refcnt |-> 0,
     ws |-> ws_new(0)]

\* alloc_slab that forgets `total_slabs += 1`
alloc_slab_no_total_slabs(c, n, backing_ok) ==
    LET r == system_alloc_slab(c.slabs, n, backing_ok)
        asked == [c EXCEPT !.backing_calls = @ + 1]
    IN  IF r.slab = NULL
        THEN [ok |-> FALSE, c |-> [asked EXCEPT !.backing_refused = @ + 1]]
        ELSE [ok |-> TRUE,
              c |-> [asked EXCEPT !.slabs = r.slabs,
                                  !.freelist = insert_back(@, r.slab),
                                  !.num_full = @ + 1]]

\* alloc_slab that forgets `num_full += 1`
alloc_slab_no_num_full(c, n, backing_ok) ==
    LET r == system_alloc_slab(c.slabs, n, backing_ok)
        asked == [c EXCEPT !.backing_calls = @ + 1]
    IN  IF r.slab = NULL
        THEN [ok |-> FALSE, c |-> [asked EXCEPT !.backing_refused = @ + 1]]
        ELSE [ok |-> TRUE,
              c |-> [asked EXCEPT !.slabs = r.slabs,
                                  !.freelist = insert_back(@, r.slab),
                                  !.total_slabs = @ + 1]]

\* alloc_slab that counts the slab before it looks at what it was given
alloc_slab_count_first(c, n, backing_ok) ==
    LET r == system_alloc_slab(c.slabs, n, backing_ok)
        asked == [c EXCEPT !.backing_calls = @ + 1, !.total_slabs = @ + 1]
    IN  IF r.slab = NULL
        THEN [ok |-> FALSE, c |-> [asked EXCEPT !.backing_refused = @ + 1]]
        ELSE [ok |-> TRUE,
              c |-> [asked EXCEPT !.slabs = r.slabs,
                                  !.freelist = insert_back(@, r.slab),
                                  !.num_full = @ + 1]]

\* SizedSlabAlloc::alloc_slab
alloc_slab(c, n, backing_ok) ==
    LET r == system_alloc_slab(c.slabs, n, backing_ok)
        asked == [c EXCEPT !.backing_calls = @ + 1]
    IN  IF r.slab = NULL
        THEN [ok |-> FALSE, c |-> [asked EXCEPT !.backing_refused = @ + 1]]
        ELSE [ok |-> TRUE,
              c |-> [asked EXCEPT !.slabs = r.slabs,
                                  !.freelist = insert_back(@, r.slab),
                                  !.total_slabs = @ + 1,
                                  !.num_full = @ + 1]]

\* alloc that leaves a slab it has just emptied in the freelist
alloc_from_front_keep_empty(c, n) ==
    LET slab == peek_front(c.freelist)
        c1 == IF is_full(c.slabs, n, slab)
              THEN [c EXCEPT !.num_full = @ - 1,
                             !.ws = ws_update_min(@, c.num_full - 1),
                             !.update_min_with = c.num_full - 1]
              ELSE c
        r == system_alloc(c1.slabs, slab)
        c2 == [c1 EXCEPT !.slabs = r.slabs]
    IN  [ok |-> TRUE, obj |-> r.obj, status |-> r.status,
         c |-> [c2 EXCEPT !.refcnt = @ + 1,
                          !.constructions =
                              init_system_init(@, c.init_system, r.obj, r.status)]]

\* alloc that does `num_full -= 1` and does not tell the working set
alloc_from_front_no_update_min(c, n) ==
    LET slab == peek_front(c.freelist)
        c1 == IF is_full(c.slabs, n, slab)
              THEN [c EXCEPT !.num_full = @ - 1]
              ELSE c
        r == system_alloc(c1.slabs, slab)
        c2 == [c1 EXCEPT !.slabs = r.slabs]
        c3 == IF is_empty(c2.slabs, slab)
              THEN [c2 EXCEPT !.freelist = remove_front(@)]
              ELSE c2
    IN  [ok |-> TRUE, obj |-> r.obj, status |-> r.status,
         c |-> [c3 EXCEPT !.refcnt = @ + 1,
                          !.constructions =
                              init_system_init(@, c.init_system, r.obj, r.status)]]

\* alloc that tells the working set num_full as it was before `-= 1`
alloc_from_front_stale_min(c, n) ==
    LET slab == peek_front(c.freelist)
        c1 == IF is_full(c.slabs, n, slab)
              THEN [c EXCEPT !.num_full = @ - 1,
                             !.ws = ws_update_min(@, c.num_full),
                             !.update_min_with = c.num_full]
              ELSE c
        r == system_alloc(c1.slabs, slab)
        c2 == [c1 EXCEPT !.slabs = r.slabs]
        c3 == IF is_empty(c2.slabs, slab)
              THEN [c2 EXCEPT !.freelist = remove_front(@)]
              ELSE c2
    IN  [ok |-> TRUE, obj |-> r.obj, status |-> r.status,
         c |-> [c3 EXCEPT !.refcnt = @ + 1,
                          !.constructions =
                              init_system_init(@, c.init_system, r.obj, r.status)]]

\* SizedSlabAlloc::alloc, from the head of the freelist on
alloc_from_front(c, n) ==
    LET slab == peek_front(c.freelist)
        c1 == IF is_full(c.slabs, n, slab)
              THEN [c EXCEPT !.num_full = @ - 1,
                             !.ws = ws_update_min(@, c.num_full - 1),
                             !.update_min_with = c.num_full - 1]
              ELSE c
        r == system_alloc(c1.slabs, slab)
        c2 == [c1 EXCEPT !.slabs = r.slabs]
        c3 == IF is_empty(c2.slabs, slab)
              THEN [c2 EXCEPT !.freelist = remove_front(@)]
              ELSE c2
    IN  [ok |-> TRUE, obj |-> r.obj, status |-> r.status,
         c |-> [c3 EXCEPT !.refcnt = @ + 1,
                          !.constructions =
                              init_system_init(@, c.init_system, r.obj, r.status)]]

\* alloc that asks the backing allocator a second time when it refuses
alloc_retry(c, n, backing_ok) ==
    IF size(c.freelist) = 0
    THEN LET a == alloc_slab(c, n, backing_ok)
             b == IF a.ok THEN a ELSE alloc_slab(a.c, n, backing_ok)
         IN  IF ~b.ok
             THEN [ok |-> FALSE, obj |-> NULL, status |-> FALSE, c |-> b.c]
             ELSE alloc_from_front(b.c, n)
    ELSE alloc_from_front(c, n)

\* alloc that asks for a new slab whenever no fully-free slab is cached
alloc_slab_when_none_full(c, n, backing_ok) ==
    IF c.num_full = 0
    THEN LET a == alloc_slab(c, n, backing_ok)
         IN  IF ~a.ok
             THEN [ok |-> FALSE, obj |-> NULL, status |-> FALSE, c |-> a.c]
             ELSE alloc_from_front(a.c, n)
    ELSE alloc_from_front(c, n)

\* SizedSlabAlloc::alloc
alloc(c, n, backing_ok) ==
    IF size(c.freelist) = 0
    THEN LET a == alloc_slab(c, n, backing_ok)
         IN  IF ~a.ok
             THEN [ok |-> FALSE, obj |-> NULL, status |-> FALSE, c |-> a.c]
             ELSE alloc_from_front(a.c, n)
    ELSE alloc_from_front(c, n)

\* What is known of a slab at the moment it is handed back.
ReleaseRecord(c, slab) ==
    [slab |-> slab,
     was_tail |-> Len(c.freelist) > 0 /\ slab = c.freelist[Len(c.freelist)],
     live |-> slab \in SlabIds /\ c.slabs[slab].live,
     free_count |-> IF slab \in SlabIds THEN free_count(c.slabs, slab) ELSE -1]

\* the loop body that forgets `total_slabs -= 1`
RECURSIVE gc_release_keep_total(_, _, _)
gc_release_keep_total(c, n, k) ==
    IF k <= 0 THEN c
    ELSE LET slab == peek_back(c.freelist)
         IN  gc_release_keep_total(
                 [c EXCEPT !.freelist = remove_back(@),
                           !.slabs = system_dealloc_slab(@, slab),
                           !.num_full = @ - 1,
                           !.released = Append(@, ReleaseRecord(c, slab))],
                 n, k - 1)

\* the loop body that takes the slab from the head of the freelist
RECURSIVE gc_release_front(_, _, _)
gc_release_front(c, n, k) ==
    IF k <= 0 THEN c
    ELSE LET slab == peek_front(c.freelist)
         IN  gc_release_front(
                 [c EXCEPT !.freelist = remove_front(@),
                           !.slabs = system_dealloc_slab(@, slab),
                           !.total_slabs = @ - 1,
                           !.num_full = @ - 1,
                           !.released = Append(@, ReleaseRecord(c, slab))],
                 n, k - 1)

\* the body of the reclamation loop, run k times
RECURSIVE gc_release(_, _, _)
gc_release(c, n, k) ==
    IF k <= 0 THEN c
    ELSE LET slab == peek_back(c.freelist)
         IN  gc_release([c EXCEPT !.freelist = remove_back(@),
                                  !.slabs = system_dealloc_slab(@, slab),
                                  !.total_slabs = @ - 1,
                                  !.num_full = @ - 1,
                                  !.released = Append(@, ReleaseRecord(c, slab))],
                        n, k - 1)

\* garbage_collect_slabs that releases every fully-free slab
garbage_collect_all(c, n) ==
    LET r == ws_refresh(c.ws, WORKING_PERIOD_SECONDS)
        c0 == [c EXCEPT !.ws = r.ws, !.gc_ran = TRUE]
    IN  IF r.some
        THEN LET c1 == gc_release([c0 EXCEPT !.gc_min = r.val], n, c0.num_full)
             IN  [c1 EXCEPT !.ws = ws_set(@, c1.num_full)]
        ELSE c0

\* garbage_collect_slabs that does not wait for the working period
garbage_collect_no_wait(c, n) ==
    LET r == ws_refresh(c.ws, 0)
        c0 == [c EXCEPT !.ws = r.ws, !.gc_ran = TRUE]
    IN  IF r.some
        THEN LET c1 == gc_release([c0 EXCEPT !.gc_min = r.val], n, r.val)
             IN  [c1 EXCEPT !.ws = ws_set(@, c1.num_full)]
        ELSE c0

\* garbage_collect_slabs that releases one slab more than the minimum
garbage_collect_one_more(c, n) ==
    LET r == ws_refresh(c.ws, WORKING_PERIOD_SECONDS)
        c0 == [c EXCEPT !.ws = r.ws, !.gc_ran = TRUE]
    IN  IF r.some
        THEN LET c1 == gc_release([c0 EXCEPT !.gc_min = r.val], n, r.val + 1)
             IN  [c1 EXCEPT !.ws = ws_set(@, c1.num_full)]
        ELSE c0

\* SizedSlabAlloc::garbage_collect_slabs
garbage_collect_slabs(c, n) ==
    LET r == ws_refresh(c.ws, WORKING_PERIOD_SECONDS)
        c0 == [c EXCEPT !.ws = r.ws, !.gc_ran = TRUE]
    IN  IF r.some
        THEN LET c1 == gc_release([c0 EXCEPT !.gc_min = r.val], n, r.val)
             IN  [c1 EXCEPT !.ws = ws_set(@, c1.num_full)]
        ELSE c0

\* the match that puts a slab that was empty and is now partial at the tail
relink_partial_to_back(c, slab, was_empty, full) ==
    CASE ~was_empty /\ full ->
             [c EXCEPT !.freelist = move_to_back(@, slab), !.num_full = @ + 1]
      [] was_empty /\ full ->
             [c EXCEPT !.freelist = insert_back(@, slab), !.num_full = @ + 1]
      [] was_empty /\ ~full ->
             [c EXCEPT !.freelist = insert_back(@, slab)]
      [] OTHER -> c

\* the match that forgets `num_full += 1` for a slab that became full
relink_forget_num_full(c, slab, was_empty, full) ==
    CASE ~was_empty /\ full ->
             [c EXCEPT !.freelist = move_to_back(@, slab)]
      [] was_empty /\ full ->
             [c EXCEPT !.freelist = insert_back(@, slab)]
      [] was_empty /\ ~full ->
             [c EXCEPT !.freelist = insert_front(@, slab)]
      [] OTHER -> c

\* the match that counts a slab that became full but leaves it where it is
relink_no_move(c, slab, was_empty, full) ==
    CASE ~was_empty /\ full ->
             [c EXCEPT !.num_full = @ + 1]
      [] was_empty /\ full ->
             [c EXCEPT !.freelist = insert_back(@, slab), !.num_full = @ + 1]
      [] was_empty /\ ~full ->
             [c EXCEPT !.freelist = insert_front(@, slab)]
      [] OTHER -> c

\* the match on (was_empty, is_full) in SizedSlabAlloc::dealloc
relink(c, slab, was_empty, full) ==
    CASE ~was_empty /\ full ->
             [c EXCEPT !.freelist = move_to_back(@, slab), !.num_full = @ + 1]
      [] was_empty /\ full ->
             [c EXCEPT !.freelist = insert_back(@, slab), !.num_full = @ + 1]
      [] was_empty /\ ~full ->
             [c EXCEPT !.freelist = insert_front(@, slab)]
      [] OTHER -> c

\* dealloc that runs garbage_collect_slabs whether or not the slab became
\* full
dealloc_always_collect(c, n, ptr, policy) ==
    LET r == system_dealloc(c.slabs, ptr, status_initialized(policy))
        c1 == [c EXCEPT !.slabs = r.slabs]
        full == is_full(c1.slabs, n, r.slab)
        c2 == relink(c1, r.slab, r.was_empty, full)
        c3 == garbage_collect_slabs(c2, n)
    IN  [c3 EXCEPT !.refcnt = @ - 1]

\* dealloc that forgets `refcnt -= 1`
dealloc_no_refcnt(c, n, ptr, policy) ==
    LET r == system_dealloc(c.slabs, ptr, status_initialized(policy))
        c1 == [c EXCEPT !.slabs = r.slabs]
        full == is_full(c1.slabs, n, r.slab)
        c2 == relink(c1, r.slab, r.was_empty, full)
    IN  IF full THEN garbage_collect_slabs(c2, n) ELSE c2

\* dealloc that frees every slot as uninitialized, whatever the policy
dealloc_uninitialized(c, n, ptr, policy) ==
    LET r == system_dealloc(c.slabs, ptr, FALSE)
        c1 == [c EXCEPT !.slabs = r.slabs]
        full == is_full(c1.slabs, n, r.slab)
        c2 == relink(c1, r.slab, r.was_empty, full)
        c3 == IF full THEN garbage_collect_slabs(c2, n) ELSE c2
    IN  [c3 EXCEPT !.refcnt = @ - 1]

\* SizedSlabAlloc::dealloc
dealloc(c, n, ptr, policy) ==
    LET r == system_dealloc(c.slabs, ptr, status_initialized(policy))
        c1 == [c EXCEPT !.slabs = r.slabs]
        full == is_full(c1.slabs, n, r.slab)
        c2 == relink(c1, r.slab, r.was_empty, full)
        c3 == IF full THEN garbage_collect_slabs(c2, n) ELSE c2
    IN  [c3 EXCEPT !.refcnt = @ - 1]

\* the loop `while self.freelist.size() > 0` of drop
RECURSIVE drop_release(_)
drop_release(c) ==
    IF size(c.freelist) = 0 THEN c
    ELSE LET slab == peek_front(c.freelist)
         IN  drop_release([c EXCEPT !.freelist = remove_front(@),
                                    !.slabs = system_dealloc_slab(@, slab),
                                    !.released = Append(@, ReleaseRecord(c, slab))])

\* drop that checks refcnt before it asks whether the thread is panicking
drop_assert_first(c, is_panicking) ==
    IF c.refcnt # 0 THEN [asserted |-> TRUE, c |-> c]
    ELSE IF is_panicking THEN [asserted |-> FALSE, c |-> c]
    ELSE [asserted |-> FALSE, c |-> drop_release(c)]

\* drop that releases the slab at the head of the freelist and stops
drop_first_only(c, is_panicking) ==
    IF is_panicking THEN [asserted |-> FALSE, c |-> c]
    ELSE IF c.refcnt # 0 THEN [asserted |-> TRUE, c |-> c]
    ELSE IF size(c.freelist) = 0 THEN [asserted |-> FALSE, c |-> c]
    ELSE LET slab == peek_front(c.freelist)
         IN  [asserted |-> FALSE,
              c |-> [c EXCEPT !.freelist = remove_front(@),
                              !.slabs = system_dealloc_slab(@, slab),
                              !.released = Append(@, ReleaseRecord(c, slab))]]

\* Drop for SizedSlabAlloc; asserted: assert_eq!(self.refcnt, 0) failed
drop(c, is_panicking) ==
    IF is_panicking THEN [asserted |-> FALSE, c |-> c]
    ELSE IF c.refcnt # 0 THEN [asserted |-> TRUE, c |-> c]
    ELSE [asserted |-> FALSE, c |-> drop_release(c)]

-----------------------------------------------------------------------------
(* The builders (SlabAllocBuilder, UntypedSlabAllocBuilder).  A Layout is a *)
(* record [size, align]; a type T is given by size_of::<T>() and           *)
(* align_of::<T>().  A builder is a record b of its fields init (the name  *)
(* of the policy, with the policy's min_align) and layout, with the type   *)
(* parameter T of a typed builder.                                         *)

Max(a, b) == IF a >= b THEN a ELSE b

Min(a, b) == IF a <= b THEN a ELSE b

PowersOfTwo == {2^k : k \in 0..MaxLog}

\* usize::is_power_of_two
is_power_of_two(x) == x \in PowersOfTwo

\* usize::next_power_of_two
next_power_of_two(x) ==
    CHOOSE p \in PowersOfTwo : p >= x /\ \A q \in PowersOfTwo : q >= x => p <= q

\* The layouts a caller can make: Layout::from_size_align accepts only a
\* power of two as align, and nothing ties align to size.
Layouts ==
    {[size |-> sz, align |-> 2^k] : sz \in 1..MaxSize, k \in 0..MaxAlignExp}

\* Layout::new::<T>(): the size of a type is a multiple of its alignment.
Types == {l \in Layouts : l.size % l.align = 0}

\* Layout::align_to
align_to(layout, align) == [layout EXCEPT !.align = Max(@, align)]

\* util::misc::satisfy_min_align
satisfy_min_align(layout, min_align) ==
    IF min_align > layout.align THEN align_to(layout, min_align) ELSE layout

\* InitSystem::min_align of the policy built over a type of alignment
\* align_of_T: the constructing policies need the type's alignment
init_min_align(policy, align_of_T) == IF policy = "nop" THEN 1 ELSE align_of_T

\* aligned::backing_size_for: header, slot stack (one index per object) and
\* OBJECTS_PER_SLAB objects; the space left over is what coloring uses
aligned_backing_size_for(layout) ==
    next_power_of_two(Max(HeaderSize + OBJECTS_PER_SLAB
                              + OBJECTS_PER_SLAB * layout.size,
                          layout.align))

\* large::backing_size_for: whole pages that hold OBJECTS_PER_SLAB objects
large_backing_size_for(layout) ==
    ((OBJECTS_PER_SLAB * layout.size + PageSize - 1) \div PageSize) * PageSize

NoLayout == [size |-> 0, align |-> 0]

NoBuilderFields ==
    [typed |-> FALSE, init |-> "none", min_align |-> 0, size_of_T |-> 0,
     align_of_T |-> 0, layout |-> NoLayout]

\* SlabAllocBuilder::{default, func, unsafe_func, no_initialize}
SlabAllocBuilder_new(policy, T) ==
    [typed |-> TRUE, init |-> policy,
     min_align |-> init_min_align(policy, T.align),
     size_of_T |-> T.size, align_of_T |-> T.align,
     layout |-> [size |-> T.size, align |-> T.align]]

\* UntypedSlabAllocBuilder::{unsafe_func, no_initialize}: the policy is
\* UnsafeFnInitSystem<u8, F> or NopInitSystem, the layout is the caller's
UntypedSlabAllocBuilder_new(policy, layout) ==
    [typed |-> FALSE, init |-> policy,
     min_align |-> init_min_align(policy, 1),
     size_of_T |-> 1, align_of_T |-> 1,
     layout |-> layout]

\* SlabAllocBuilder::align; ok: no assertion failed
SlabAllocBuilder_align(b, align) ==
    IF /\ is_power_of_two(align)
       /\ align <= b.size_of_T
       /\ b.size_of_T % align = 0
       /\ align <= PageSize
    THEN [ok |-> TRUE, b |-> [b EXCEPT !.layout = align_to(@, align)]]
    ELSE [ok |-> FALSE, b |-> b]

\* UntypedSlabAllocBuilder::align; ok: no assertion failed
UntypedSlabAllocBuilder_align(b, align) ==
    IF /\ is_power_of_two(align)
       /\ align <= b.layout.size
       /\ b.layout.size % align = 0
       /\ align <= PageSize
    THEN [ok |-> TRUE, b |-> [b EXCEPT !.layout = align_to(@, align)]]
    ELSE [ok |-> FALSE, b |-> b]

\* The allocator build_backing makes: family is the variant of
\* PrivateSlabAlloc, layout the field of SizedSlabAlloc, system_layout the
\* layout the slab family was constructed with, slab_layout the layout
\* handed to get_aligned or get_large.
NoAlloc ==
    [family |-> "none", layout |-> NoLayout, system_layout |-> NoLayout,
     slab_layout |-> NoLayout, get_aligned_calls |-> 0, get_large_calls |-> 0]

\* build_backing that takes the aligned family only when the backing size
\* is strictly below max_align
build_backing_strict(b, max_align) ==
    IF ~(max_align >= PageSize) THEN [ok |-> FALSE, alloc |-> NoAlloc]
    ELSE
    LET layout == satisfy_min_align(b.layout, b.min_align)
        aligned_backing_size == aligned_backing_size_for(layout)
    IN  IF aligned_backing_size < max_align
        THEN [ok |-> TRUE,
              alloc |-> [family |-> "aligned", layout |-> b.layout,
                         system_layout |-> layout,
                         slab_layout |-> [size |-> aligned_backing_size,
                                          align |-> aligned_backing_size],
                         get_aligned_calls |-> 1, get_large_calls |-> 0]]
        ELSE [ok |-> TRUE,
              alloc |-> [family |-> "large", layout |-> b.layout,
                         system_layout |-> layout,
                         slab_layout |-> [size |-> large_backing_size_for(layout),
                                          align |-> PageSize],
                         get_aligned_calls |-> 0, get_large_calls |-> 1]]

\* build_backing that gives SizedSlabAlloc the layout of the slab
build_backing_slab_layout(b, max_align) ==
    IF ~(max_align >= PageSize) THEN [ok |-> FALSE, alloc |-> NoAlloc]
    ELSE
    LET layout == satisfy_min_align(b.layout, b.min_align)
        aligned_backing_size == aligned_backing_size_for(layout)
    IN  IF aligned_backing_size <= max_align
        THEN [ok |-> TRUE,
              alloc |-> [family |-> "aligned",
                         layout |-> [size |-> aligned_backing_size,
                                     align |-> aligned_backing_size],
                         system_layout |-> layout,
                         slab_layout |-> [size |-> aligned_backing_size,
                                          align |-> aligned_backing_size],
                         get_aligned_calls |-> 1, get_large_calls |-> 0]]
        ELSE [ok |-> TRUE,
              alloc |-> [family |-> "large",
                         layout |-> [size |-> large_backing_size_for(layout),
                                     align |-> PageSize],
                         system_layout |-> layout,
                         slab_layout |-> [size |-> large_backing_size_for(layout),
                                          align |-> PageSize],
                         get_aligned_calls |-> 0, get_large_calls |-> 1]]

\* build_backing (and build_untyped_backing, which has the same body);
\* ok: the assertion on max_align held
build_backing(b, max_align) ==
    IF ~(max_align >= PageSize) THEN [ok |-> FALSE, alloc |-> NoAlloc]
    ELSE
    LET layout == satisfy_min_align(b.layout, b.min_align)
        aligned_backing_size == aligned_backing_size_for(layout)
    IN  IF aligned_backing_size <= max_align
        THEN [ok |-> TRUE,
              alloc |-> [family |-> "aligned", layout |-> b.layout,
                         system_layout |-> layout,
                         slab_layout |-> [size |-> aligned_backing_size,
                                          align |-> aligned_backing_size],
                         get_aligned_calls |-> 1, get_large_calls |-> 0]]
        ELSE [ok |-> TRUE,
              alloc |-> [family |-> "large", layout |-> b.layout,
                         system_layout |-> layout,
                         slab_layout |-> [size |-> large_backing_size_for(layout),
                                          align |-> PageSize],
                         get_aligned_calls |-> 0, get_large_calls |-> 1]]

\* UntypedObjectAlloc::layout of the built allocator
layout(a) == a.layout

\* Before any builder is made.
NoBuilder ==
    [phase |-> "none", b |-> NoBuilderFields, max_align |-> 0,
     alloc |-> NoAlloc, reported |-> NoLayout]

-----------------------------------------------------------------------------
(* The state machine.                                                      *)

NoOp == [op |-> "new", ok |-> TRUE, obj |-> NULL, status |-> FALSE,
         backing_calls |-> 0, backing_refused |-> 0, released |-> <<>>,
         gc_ran |-> FALSE, gc_min |-> -1, update_min_with |-> -1,
         round_trip |-> FALSE, from_refcnt |-> 0, from_total_slabs |-> 0,
         from_freelist_size |-> 0]

\* What an operation that ended with the fields `c` reports.
Report(op, ok, obj, status, c) ==
    [op |-> op, ok |-> ok, obj |-> obj, status |-> status,
     backing_calls |-> c.backing_calls, backing_refused |-> c.backing_refused,
     released |-> c.released, gc_ran |-> c.gc_ran, gc_min |-> c.gc_min,
     update_min_with |-> c.update_min_with,
     round_trip |-> FALSE, from_refcnt |-> refcnt,
     from_total_slabs |-> total_slabs, from_freelist_size |-> size(freelist)]

\* The report of a dealloc.  round_trip: it gives back the pointer that the
\* alloc just before it returned; the from_ fields are then the values
\* before that alloc.
ReportDealloc(ptr, c) ==
    IF last.op = "alloc" /\ last.ok /\ last.obj = ptr
    THEN [Report("dealloc", TRUE, ptr, FALSE, c) EXCEPT
              !.round_trip = TRUE,
              !.from_refcnt = last.from_refcnt,
              !.from_total_slabs = last.from_total_slabs,
              !.from_freelist_size = last.from_freelist_size]
    ELSE Report("dealloc", TRUE, ptr, FALSE, c)

Install(c) ==
    /\ freelist' = c.freelist
    /\ total_slabs' = c.total_slabs
    /\ num_full' = c.num_full
    /\ refcnt' = c.refcnt
    /\ full_slab_working_set' = c.ws
    /\ slabs' = c.slabs
    \* the count is kept for the lifetime of the slab
    /\ constructions' = [a \in Addrs |->
                            IF c.slabs[SlabOf(a)].live THEN c.constructions[a]
                            ELSE 0]
    \* a window begins with the num_full the operation that closed the last
    \* one ends with
    /\ window_min_num_full' = IF c.gc_min >= 0 THEN c.num_full
                              ELSE Min(window_min_num_full, c.num_full)

Init ==
    /\ objects_per_slab \in 1..MaxObjectsPerSlab
    /\ init_system \in {"init", "nop"}
    /\ idle = 0
    /\ alive = TRUE
    /\ builder = NoBuilder
    /\ constructions = [a \in Addrs |-> 0]
    /\ panicking = FALSE
    /\ freelist = new.freelist
    /\ total_slabs = new.total_slabs
    /\ num_full = new.num_full
    /\ refcnt = new.refcnt
    /\ full_slab_working_set = new.ws
    /\ slabs = [s \in SlabIds |-> DeadSlab]
    /\ outstanding = {}
    /\ last = NoOp
    /\ cycle = "allocs"
    /\ window_min_num_full = new.num_full

\* The basic cycle of a caller: from the fresh allocator, allocs until it
\* holds n objects ("allocs"), then deallocs only ("deallocs"); "off" once
\* the caller has done anything else.
cycle_after_alloc(ok, held, n) ==
    IF cycle = "allocs" /\ ok
    THEN (IF held = n THEN "deallocs" ELSE "allocs")
    ELSE "off"

cycle_after_dealloc == IF cycle = "deallocs" THEN "deallocs" ELSE "off"

\* The caller calls alloc; the backing allocator grants a region or refuses.
Alloc(backing_ok) ==
    LET r == alloc(Self, objects_per_slab, backing_ok) IN
    /\ alive
    /\ Cardinality(outstanding) < MaxOutstanding
    /\ Install(r.c)
    /\ outstanding' = IF r.ok THEN outstanding \cup {r.obj} ELSE outstanding
    /\ last' = Report("alloc", r.ok, r.obj, r.status, r.c)
    /\ idle' = 0
    /\ cycle' = cycle_after_alloc(r.ok, Cardinality(outstanding) + 1,
                                  objects_per_slab)
    /\ UNCHANGED <<objects_per_slab, init_system, alive, panicking, builder>>

\* The caller gives back a pointer it holds.
Dealloc(ptr) ==
    LET c == dealloc(Self, objects_per_slab, ptr, init_system) IN
    /\ alive
    /\ ptr \in outstanding
    /\ Install(c)
    /\ outstanding' = outstanding \ {ptr}
    /\ last' = ReportDealloc(ptr, c)
    /\ cycle' = cycle_after_dealloc
    /\ UNCHANGED <<objects_per_slab, init_system, idle, alive, panicking,
                   builder>>

\* Time passes between operations.
Tick(d) ==
    /\ alive
    /\ full_slab_working_set.elapsed + d <= MaxTime
    /\ full_slab_working_set' = ws_tick(full_slab_working_set, d)
    /\ idle' = IF idle + d <= MaxTime THEN idle + d ELSE MaxTime
    /\ last' = [NoOp EXCEPT !.op = "tick", !.from_refcnt = refcnt,
                            !.from_total_slabs = total_slabs,
                            !.from_freelist_size = size(freelist)]
    /\ UNCHANGED <<freelist, total_slabs, num_full, refcnt, slabs,
                   objects_per_slab, init_system, alive, panicking, constructions,
                   outstanding, cycle, window_min_num_full, builder>>

\* The allocator goes out of scope, in normal execution or while the thread
\* unwinds from a panic.
Drop(is_panicking) ==
    LET r == drop(Self, is_panicking) IN
    /\ alive
    /\ alive' = FALSE
    /\ panicking' = is_panicking
    /\ Install(r.c)
    /\ last' = Report("drop", ~r.asserted, NULL, FALSE, r.c)
    /\ cycle' = "off"
    /\ UNCHANGED <<objects_per_slab, init_system, idle, outstanding, builder>>

Next ==
    \/ \E backing_ok \in BOOLEAN : Alloc(backing_ok)
    \/ \E ptr \in outstanding : Dealloc(ptr)
    \/ \E d \in TickSteps : Tick(d)
    \/ \E is_panicking \in BOOLEAN : Drop(is_panicking)

Spec == Init /\ [][Next]_vars

-----------------------------------------------------------------------------
(* Configuring and building an allocator.  builder.phase is "none" before  *)
(* a builder exists, "builder" while it is configured, "panicked" once an  *)
(* assertion of the builder has failed, "built" once build_backing has     *)
(* returned an allocator.                                                  *)

AllocatorVars ==
    <<freelist, total_slabs, num_full, refcnt, full_slab_working_set, slabs,
      objects_per_slab, init_system, idle, alive, panicking, constructions,
      outstanding, last, cycle, window_min_num_full>>

BuilderInit ==
    /\ Init
    /\ objects_per_slab = MaxObjectsPerSlab
    /\ init_system = "init"

TypedPolicies == {"default", "func", "unsafe_func", "nop"}

UntypedPolicies == {"unsafe_func", "nop"}

NewTyped(policy, T) ==
    /\ builder.phase = "none"
    /\ builder' = [builder EXCEPT !.phase = "builder",
                                  !.b = SlabAllocBuilder_new(policy, T)]
    /\ UNCHANGED AllocatorVars

NewUntyped(policy, l) ==
    /\ builder.phase = "none"
    /\ builder' = [builder EXCEPT !.phase = "builder",
                                  !.b = UntypedSlabAllocBuilder_new(policy, l)]
    /\ UNCHANGED AllocatorVars

Align(align) ==
    LET r == IF builder.b.typed THEN SlabAllocBuilder_align(builder.b, align)
             ELSE UntypedSlabAllocBuilder_align(builder.b, align)
    IN  /\ builder.phase = "builder"
        /\ builder' = [builder EXCEPT
                           !.phase = IF r.ok THEN "builder" ELSE "panicked",
                           !.b = r.b]
        /\ UNCHANGED AllocatorVars

BuildBacking(max_align) ==
    LET r == build_backing(builder.b, max_align) IN
    /\ builder.phase = "builder"
    /\ builder' = [builder EXCEPT
                       !.phase = IF r.ok THEN "built" ELSE "panicked",
                       !.max_align = max_align,
                       !.alloc = r.alloc]
    /\ UNCHANGED AllocatorVars

CallLayout ==
    /\ builder.phase = "built"
    /\ builder' = [builder EXCEPT !.reported = layout(builder.alloc)]
    /\ UNCHANGED AllocatorVars

BuilderNext ==
    \/ \E policy \in TypedPolicies, T \in Types : NewTyped(policy, T)
    \/ \E policy \in UntypedPolicies, l \in Layouts : NewUntyped(policy, l)
    \/ \E align \in 0..MaxAlignInput : Align(align)
    \/ \E max_align \in 1..MaxMaxAlign : BuildBacking(max_align)
    \/ CallLayout

BuilderSpec == BuilderInit /\ [][BuilderNext]_vars

-----------------------------------------------------------------------------
(* Properties.                                                             *)

N == objects_per_slab

FreeCount(s) == free_count(slabs, s)

Live == LiveSlabs(slabs)

Linked(s) == \E i \in 1..Len(freelist) : freelist[i] = s

Partial(s) == 0 < FreeCount(s) /\ FreeCount(s) < N

FullyFree(s) == FreeCount(s) = N

\* The step just taken was a call of alloc / of dealloc.
AllocStep == last'.op = "alloc"

DeallocStep == last'.op = "dealloc"

\* C1: walking the freelist from head to tail, every partial slab
\* (0 < free_count < N) comes before every fully-free slab (free_count = N),
\* after every alloc and every dealloc, reclamation included.
C1_PartialBeforeFull ==
    \A i, j \in 1..Len(freelist) :
        Partial(freelist[i]) /\ FullyFree(freelist[j]) => i < j

\* A dealloc has just run garbage_collect_slabs while the freelist holds a
\* partial slab and a fully-free one.
C1_Witness ==
    /\ last.op = "dealloc" /\ last.gc_ran
    /\ \E i, j \in 1..Len(freelist) :
           Partial(freelist[i]) /\ FullyFree(freelist[j])

\* C2: a live slab is linked in the freelist (once) if and only if it has a
\* free slot: linked slabs are live with 0 < free_count <= N, live slabs with
\* free_count = 0 are unlinked, and every free_count is within 0..N.
C2_LinkedIffFreeSlot ==
    /\ \A i \in 1..Len(freelist) :
           /\ freelist[i] \in Live
           /\ 0 < FreeCount(freelist[i]) /\ FreeCount(freelist[i]) <= N
           /\ \A j \in 1..Len(freelist) : freelist[j] = freelist[i] => i = j
    /\ \A s \in Live :
           /\ FreeCount(s) >= 0 /\ FreeCount(s) <= N
           /\ Linked(s) <=> FreeCount(s) > 0

\* One live slab has no free slot and is unlinked while another is linked.
C2_Witness ==
    \E s, t \in Live : FreeCount(s) = 0 /\ ~Linked(s) /\ Linked(t)

\* C3: num_full equals the number of freelist entries whose slab is fully
\* free, after every alloc and dealloc (as long as the allocator is not
\* dropped: drop releases the slabs and leaves the counters).
C3_NumFullCounts ==
    alive =>
        num_full = Cardinality({i \in 1..Len(freelist) : FullyFree(freelist[i])})

\* A dealloc whose reclamation released a slab left fully-free slabs behind,
\* and an alloc has acquired a slab since the allocator was built.
C3_Witness ==
    /\ last.op = "dealloc" /\ Len(last.released) >= 1
    /\ num_full >= 1 /\ total_slabs >= 2

RECURSIVE SumFree(_)
SumFree(S) ==
    IF S = {} THEN 0
    ELSE LET s == CHOOSE x \in S : TRUE IN FreeCount(s) + SumFree(S \ {s})

\* What C4 says of one state.
RefcntCounts ==
    alive =>
        /\ refcnt = Cardinality(outstanding)
        /\ refcnt = N * total_slabs - SumFree(Live)

\* C4: refcnt equals the number of objects the caller holds, which equals
\* N * total_slabs minus the free slots of all live slabs, as long as the
\* allocator is not dropped; an alloc that returns Exhausted leaves refcnt
\* as it was.
C4_RefcntOutstanding ==
    /\ RefcntCounts
    /\ [][/\ RefcntCounts'
          /\ (AllocStep /\ ~last'.ok => refcnt' = refcnt)]_vars

\* An alloc has returned Exhausted while the caller holds objects of two
\* slabs.
C4_Witness ==
    /\ last.op = "alloc" /\ ~last.ok
    /\ refcnt >= 2 /\ total_slabs >= 2

\* C5: total_slabs equals the slabs linked in the freelist plus the live
\* slabs with no free slot, and equals the number of regions currently held
\* from the backing allocator (acquired minus released), as long as the
\* allocator is not dropped.
C5_TotalSlabs ==
    alive =>
        /\ total_slabs
               = Len(freelist) + Cardinality({s \in Live : FreeCount(s) = 0})
        /\ total_slabs = Cardinality(Live)

\* Reclamation has just released a slab, and of the slabs that remain one is
\* linked and one is unlinked.
C5_Witness ==
    /\ last.op = "dealloc" /\ Len(last.released) >= 1
    /\ Len(freelist) >= 1
    /\ \E s \in Live : FreeCount(s) = 0

Abs(x) == IF x < 0 THEN -x ELSE x

\* C6: no slot is handed out twice while outstanding: the pointer a
\* successful alloc returns is none of the pointers the caller holds, and is
\* at least the object size away from each of them (a different slot or a
\* different slab).
C6_NoDoubleHandout ==
    [][AllocStep /\ last'.ok =>
          /\ last'.obj \notin outstanding
          /\ \A q \in outstanding : Abs(last'.obj - q) >= ObjSize
          /\ <<SlabOf(last'.obj), SlotIndexOf(last'.obj)>> \notin
                 {<<SlabOf(q), SlotIndexOf(q)>> : q \in outstanding}]_vars

\* alloc has handed out again a slot that was freed before, while the caller
\* holds another object of the same slab and an object of another slab.
C6_Witness ==
    /\ last.op = "alloc" /\ last.ok /\ last.status
    /\ \E q \in outstanding : q # last.obj /\ SlabOf(q) = SlabOf(last.obj)
    /\ \E q \in outstanding : SlabOf(q) # SlabOf(last.obj)

\* C7: alloc returns Exhausted exactly when the freelist was empty at the
\* call and the backing allocator refused; with a non-empty freelist it
\* succeeds without asking the backing allocator; with an empty freelist it
\* asks exactly once, never twice.
C7_ExhaustedIff ==
    [][AllocStep =>
          /\ ~last'.ok <=> (Len(freelist) = 0 /\ last'.backing_refused >= 1)
          /\ Len(freelist) > 0 => last'.ok /\ last'.backing_calls = 0
          /\ Len(freelist) = 0 => last'.backing_calls = 1
          /\ last'.backing_calls <= 1]_vars

\* alloc has returned Exhausted after one refused request, the freelist being
\* empty because every live slab is handed out completely.
C7_Witness ==
    /\ last.op = "alloc" /\ ~last.ok
    /\ last.backing_calls = 1 /\ last.backing_refused = 1
    /\ Len(freelist) = 0 /\ total_slabs >= 1

\* The fields of SizedSlabAlloc and the headers of its slabs.
AllocatorState ==
    <<freelist, total_slabs, num_full, refcnt, full_slab_working_set, slabs>>

\* C8: an alloc that returns Exhausted leaves the allocator as it was:
\* freelist, total_slabs, num_full, refcnt, the working set and every slab's
\* free slots and init bits; the caller still holds what it held.
C8_ExhaustedNoChange ==
    [][AllocStep /\ ~last'.ok =>
          /\ AllocatorState' = AllocatorState
          /\ outstanding' = outstanding]_vars

\* alloc has returned Exhausted while objects are outstanding, every live
\* slab is unlinked and the current window has been running for a while.
C8_Witness ==
    /\ last.op = "alloc" /\ ~last.ok
    /\ num_full = 0 /\ refcnt >= 1
    /\ full_slab_working_set.elapsed > 0
    /\ init_system = "init"

\* C9: when garbage_collect_slabs observes a closed window it releases
\* exactly min_full slabs, the minimum recorded by the working set; each
\* released slab is the freelist tail at that moment, is fully free and holds
\* no outstanding object; total_slabs and num_full (as dealloc had just
\* incremented it) each drop by min_full; the working set is reseeded with
\* the new num_full.  A window is closed exactly when it has lasted
\* WORKING_PERIOD_SECONDS, and no operation ever releases a slab that holds
\* an outstanding object.
C9_ReleaseExactlyMin ==
    [][/\ \A k \in 1..Len(last'.released) :
              \A p \in outstanding' : SlabOf(p) # last'.released[k].slab
       /\ DeallocStep /\ last'.gc_ran =>
              (last'.gc_min >= 0 <=>
                   full_slab_working_set.elapsed >= WORKING_PERIOD_SECONDS)
       /\ DeallocStep /\ last'.gc_min >= 0 =>
              /\ last'.gc_min = full_slab_working_set.min
              /\ Len(last'.released) = last'.gc_min
              /\ \A k \in 1..Len(last'.released) :
                     /\ last'.released[k].was_tail
                     /\ last'.released[k].free_count = N
              /\ total_slabs' = total_slabs - last'.gc_min
              /\ num_full' = (num_full + 1) - last'.gc_min
              /\ full_slab_working_set' = [min |-> num_full', elapsed |-> 0]]_vars

\* A dealloc has closed a window and released two slabs.
C9_Witness ==
    /\ last.op = "dealloc" /\ last.gc_min = 2
    /\ Len(last.released) = 2

\* C10 as the specification states it: after WORKING_PERIOD_SECONDS without
\* an alloc the next dealloc that triggers reclamation brings num_full to 0,
\* and a reclamation that closes a window reduces num_full to the window
\* minimum.
C10_SettlesToZero ==
    /\ (last.op = "dealloc" /\ last.gc_ran /\ idle >= WORKING_PERIOD_SECONDS)
           => num_full = 0
    /\ (last.op = "dealloc" /\ last.gc_min >= 0) => num_full = last.gc_min

\* C10, amended: a dealloc that triggers reclamation once the window has
\* lasted WORKING_PERIOD_SECONDS reduces num_full by the window minimum, not
\* to it, and at least one fully-free slab always remains, also after
\* WORKING_PERIOD_SECONDS without an alloc; when the window minimum is 0, as
\* after allocating k slabs' worth of objects, freeing them all, waiting 15
\* seconds and one alloc/dealloc, nothing is released and num_full stays at
\* the number of fully-free slabs, which is total_slabs when no object is
\* outstanding.
C10_ReducedByMinimum ==
    [][/\ DeallocStep /\ last'.gc_ran => num_full' >= 1
       /\ DeallocStep /\ last'.gc_min >= 0 =>
              /\ num_full' = (num_full + 1) - last'.gc_min
              /\ last'.gc_min <= num_full
              /\ last'.gc_min = 0 =>
                     /\ last'.released = <<>>
                     /\ total_slabs' = total_slabs
                     /\ refcnt' = 0 => num_full' = total_slabs]_vars

\* Every object has been freed, the last dealloc closed a window whose
\* minimum was 0, and two fully-free slabs remain.
C10_Witness ==
    /\ last.op = "dealloc" /\ last.gc_min = 0
    /\ refcnt = 0 /\ num_full >= 2 /\ num_full = total_slabs

\* The step just taken was the drop of the allocator.
DropStep == last'.op = "drop"

\* The slabs a step released, in the order it released them.
ReleasedSlabs(l) == {l.released[k].slab : k \in 1..Len(l.released)}

\* C11: a drop outside of unwinding with refcnt = 0 finds every live slab
\* fully free and linked (total_slabs = num_full = length of the freelist)
\* and releases each of them exactly once, leaving no live slab.  Every step
\* of the lifetime changes the number of live slabs by the slabs it acquired
\* minus the slabs it released, and releases only live slabs, each once: so
\* slabs released (reclamation plus drop) equal slabs acquired.
C11_DropReleasesAll ==
    [][/\ Cardinality(Live') = Cardinality(Live)
              + (last'.backing_calls - last'.backing_refused)
              - Len(last'.released)
       /\ \A k \in 1..Len(last'.released) :
              /\ last'.released[k].live
              /\ last'.released[k].slab \in Live
              /\ \A j \in 1..Len(last'.released) :
                     last'.released[j].slab = last'.released[k].slab => j = k
       /\ (DropStep /\ ~panicking' /\ refcnt = 0) =>
              /\ last'.ok
              /\ total_slabs = num_full /\ num_full = Len(freelist)
              /\ \A s \in Live : FullyFree(s) /\ Linked(s)
              /\ ReleasedSlabs(last') = Live
              /\ Len(last'.released) = Cardinality(Live)
              /\ Live' = {}]_vars

\* A drop outside of unwinding has released two slabs at least.
C11_Witness ==
    /\ ~alive /\ ~panicking /\ last.op = "drop" /\ last.ok
    /\ refcnt = 0 /\ Len(last.released) >= 2 /\ Live = {}

\* C12: a drop while the thread is panicking does not assert, whatever
\* refcnt is, releases no slab, makes no call to the slab family or the
\* backing allocator and leaves every slab live (leaked).
C12_PanickingDropLeaks ==
    [][DropStep /\ panicking' =>
          /\ last'.ok
          /\ last'.released = <<>>
          /\ last'.backing_calls = 0
          /\ AllocatorState' = AllocatorState
          /\ Live' = Live]_vars

\* The allocator was dropped while panicking with objects outstanding.
C12_Witness ==
    /\ ~alive /\ panicking /\ last.op = "drop" /\ last.ok
    /\ refcnt > 0 /\ Live # {} /\ Len(freelist) >= 1

\* C13: under a constructing init policy a slot is constructed at most once
\* in the lifetime of its slab.  The first alloc of a slot sees init bit 0
\* and constructs it; every dealloc marks the slot initialized; every later
\* alloc of the slot in the same slab reports it cached and constructs
\* nothing: after any number of alloc/dealloc cycles the count is one.
C13_ConstructedOnce ==
    [][init_system = "init" =>
          /\ \A a \in Addrs : constructions'[a] <= 1
          /\ \A a \in Addrs :
                 (slabs'[SlabOf(a)].live /\ SlotIndexOf(a) < N) =>
                     (constructions'[a] = 1 <=>
                          \/ a \in outstanding'
                          \/ SlotIndexOf(a) \in slabs'[SlabOf(a)].init)
          /\ (AllocStep /\ last'.ok) =>
                 LET a == last'.obj
                     before == IF slabs[SlabOf(a)].live THEN constructions[a]
                               ELSE 0
                 IN  /\ last'.status <=> before = 1
                     /\ constructions'[a] = 1
                     /\ \A b \in Addrs \ {a} :
                            constructions'[b] = constructions[b]
          /\ DeallocStep =>
                 \A a \in outstanding \ outstanding' :
                     slabs'[SlabOf(a)].live =>
                         /\ SlotIndexOf(a) \in slabs'[SlabOf(a)].init
                         /\ constructions'[a] = constructions[a]]_vars

\* An alloc has handed out a cached slot: constructed once, freed, and
\* handed out again without a construction, while another slot of the slab
\* has been constructed and freed too.
C13_Witness ==
    /\ init_system = "init"
    /\ last.op = "alloc" /\ last.ok /\ last.status
    /\ constructions[last.obj] = 1
    /\ slabs[SlabOf(last.obj)].init # {}

\* A dealloc has just completed a round trip (alloc, then dealloc of the
\* pointer it returned) in which no reclamation window closed.
RoundTripDone ==
    last.op = "dealloc" /\ last.round_trip /\ last.gc_min < 0

\* C14 as the spec states it: after a round trip in which no reclamation
\* window closes, refcnt and total_slabs are what they were before it.
C14_RoundTripBalanced ==
    RoundTripDone =>
        /\ refcnt = last.from_refcnt
        /\ total_slabs = last.from_total_slabs

\* C14, amended: after a round trip in which no reclamation window closes,
\* refcnt is what it was before it, and total_slabs is what it was before
\* it unless the alloc found the freelist empty and acquired a slab: then
\* total_slabs is one more, the new slab staying with the allocator.
C14_RoundTripKeepsSlab ==
    RoundTripDone =>
        /\ refcnt = last.from_refcnt
        /\ total_slabs = last.from_total_slabs
                           + (IF last.from_freelist_size = 0 THEN 1 ELSE 0)

\* A round trip that began with an empty freelist and slabs in use has ended
\* with one slab more; time has passed in the open window.
C14_Witness ==
    /\ RoundTripDone
    /\ last.from_freelist_size = 0 /\ last.from_total_slabs >= 1
    /\ total_slabs = last.from_total_slabs + 1
    /\ full_slab_working_set.elapsed > 0

\* build_backing has returned an allocator.
Built == builder.phase = "built"

\* The effective layout of the builder: the configured size, the alignment
\* raised to at least the min_align of the init policy.
EffectiveLayout ==
    [size |-> builder.b.layout.size,
     align |-> Max(builder.b.layout.align, builder.b.min_align)]

\* What C15 says of one state.
FamilyByBackingSize ==
    Built =>
        LET need == aligned_backing_size_for(EffectiveLayout)
            a == builder.alloc
        IN  /\ builder.max_align >= PageSize
            /\ a.family \in {"aligned", "large"}
            /\ a.family = "aligned" <=> need <= builder.max_align
            /\ a.family = "large" <=> need > builder.max_align
            /\ a.get_aligned_calls + a.get_large_calls = 1
            /\ a.get_aligned_calls = 1 <=> a.family = "aligned"
            /\ a.family = "aligned" =>
                   a.slab_layout = [size |-> need, align |-> need]

\* C15: for every layout and every max_align >= page size the allocator
\* built uses the aligned family iff the aligned family's backing size for
\* the effective layout is <= max_align, and the large family otherwise;
\* exactly one of get_aligned / get_large has been called, the one of the
\* family chosen; once built, the family never changes.
C15_FamilySelection ==
    /\ FamilyByBackingSize
    /\ [][/\ FamilyByBackingSize'
          /\ Built => (Built' /\ builder'.alloc = builder.alloc)]_vars

\* An allocator was built with max_align equal to the backing size the
\* aligned family needs, above the page size; layout() has been called on it.
C15_Witness ==
    /\ Built
    /\ builder.alloc.family = "aligned"
    /\ aligned_backing_size_for(EffectiveLayout) = builder.max_align
    /\ builder.max_align > PageSize
    /\ builder.reported # NoLayout

\* C16: layout() reports the effective layout: the configured size with the
\* alignment raised to at least the init policy's min_align, which is the
\* layout the slab family was constructed with, whatever the builder, its
\* configuration and its init policy.
C16_LayoutIsEffective ==
    Built =>
        /\ layout(builder.alloc) = EffectiveLayout
        /\ layout(builder.alloc) = builder.alloc.system_layout
        /\ builder.reported # NoLayout => builder.reported = EffectiveLayout

\* layout() has been called on an allocator of a constructing policy, built
\* by a typed builder whose alignment was raised above that of the type.
C16_Witness ==
    /\ Built
    /\ builder.reported # NoLayout
    /\ builder.b.typed /\ builder.b.init = "default"
    /\ builder.b.align_of_T > 1
    /\ builder.b.layout.align > builder.b.align_of_T

\* An object layout request the spec allows.
ValidRequest(l) ==
    /\ is_power_of_two(l.align)
    /\ l.align <= l.size
    /\ l.size % l.align = 0
    /\ l.align <= PageSize

\* C17: every configuration violation (align not a power of two, align
\* greater than the object size or the page size, size not a multiple of
\* align, max_align < page size) is rejected at builder time: an allocator
\* is only ever built from a valid layout request and a max_align >= the
\* page size, by the typed and by the untyped builder, also when the
\* untyped builder got an explicit layout and align() was never called.
C17_ViolationsRejected ==
    Built =>
        /\ ValidRequest(builder.b.layout)
        /\ builder.max_align >= PageSize

\* The slab of the pointer the step's dealloc was given.
DeallocSlab == SlabOf(last'.obj)

\* C18: while the allocator is alive, slabs are released to the family only
\* inside a dealloc that has just made a slab fully free.  alloc releases
\* no slab and does not run the reclamation check; a dealloc that leaves
\* its slab partial releases no slab, does not run the check and leaves the
\* working set (window start and minimum) as it was.
C18_ReleaseOnlyOnFullyFree ==
    [][/\ AllocStep =>
              /\ last'.released = <<>> /\ ~last'.gc_ran
              /\ full_slab_working_set'.elapsed = full_slab_working_set.elapsed
       /\ (DeallocStep /\ FreeCount(DeallocSlab) + 1 < N) =>
              /\ last'.released = <<>> /\ ~last'.gc_ran
              /\ full_slab_working_set' = full_slab_working_set
              /\ Live' = Live
       /\ (alive' /\ (last'.released # <<>> \/ last'.gc_ran)) =>
              /\ DeallocStep
              /\ FreeCount(DeallocSlab) + 1 = N
       /\ (alive' /\ Live' # Live /\ ~AllocStep) =>
              /\ DeallocStep
              /\ FreeCount(DeallocSlab) + 1 = N]_vars

\* A dealloc has left its slab partial, and run no check, although the
\* window has lasted the working period with a minimum that would release a
\* fully-free slab.
C18_Witness ==
    /\ last.op = "dealloc" /\ ~last.gc_ran
    /\ Partial(SlabOf(last.obj))
    /\ full_slab_working_set.elapsed >= WORKING_PERIOD_SECONDS
    /\ full_slab_working_set.min >= 1 /\ num_full >= 1

\* C19: no slab is released before the working period has elapsed: when
\* fewer than WORKING_PERIOD_SECONDS have passed since the window began, a
\* dealloc that runs the reclamation check releases nothing; the check
\* leaves total_slabs, num_full (beyond dealloc's own increment for the slab
\* that became full), the window start and the minimum as they were.
C19_NoReleaseBeforePeriod ==
    [][/\ (DeallocStep /\ last'.gc_ran
              /\ full_slab_working_set.elapsed < WORKING_PERIOD_SECONDS) =>
              /\ last'.released = <<>> /\ last'.gc_min = -1
              /\ Live' = Live
              /\ total_slabs' = total_slabs
              /\ num_full' = num_full + 1
              /\ full_slab_working_set' = full_slab_working_set
       /\ (alive' /\ last'.released # <<>>) =>
              full_slab_working_set.elapsed >= WORKING_PERIOD_SECONDS]_vars

\* A dealloc has run the check one second before the working period ended,
\* in a window whose minimum would have released a slab.
C19_Witness ==
    /\ last.op = "dealloc" /\ last.gc_ran /\ last.gc_min = -1
    /\ full_slab_working_set.elapsed = WORKING_PERIOD_SECONDS - 1
    /\ full_slab_working_set.min >= 1
    /\ num_full >= 2

\* The freelist without the slab s.
Others(l, s) == LET Other(x) == x # s IN SelectSeq(l, Other)

\* The freelist dealloc's table gives for the slab s, before reclamation.
Relinked(s, was_empty, full) ==
    CASE ~was_empty /\ ~full -> freelist
      [] ~was_empty /\ full -> Others(freelist, s) \o <<s>>
      [] was_empty /\ ~full -> <<s>> \o freelist
      [] OTHER -> freelist \o <<s>>

\* C20: dealloc re-links the slab by (was_empty before, is_full now):
\* (false,false) leaves the freelist as it is; (false,true) moves the slab
\* to the tail; (true,false) inserts the slab, unlinked until then, at the
\* head, where the next alloc is served from; (true,true) inserts it at the
\* tail and happens only when N = 1.  The other slabs keep their relative
\* order; reclamation then takes slabs off the tail.
C20_RelinkTable ==
    [][/\ DeallocStep =>
              LET s == DeallocSlab
                  was_empty == FreeCount(s) = 0
                  full == FreeCount(s) + 1 = N
                  e == Relinked(s, was_empty, full)
                  kept == Len(e) - Len(last'.released)
              IN  /\ was_empty <=> ~Linked(s)
                  /\ (was_empty /\ full) => N = 1
                  /\ freelist' = SubSeq(e, 1, kept)
                  /\ Others(e, s) = Others(freelist, s)
                  /\ (was_empty /\ ~full) =>
                         /\ last'.released = <<>>
                         /\ Head(freelist') = s
                         /\ Tail(freelist') = freelist
       /\ (AllocStep /\ last'.ok /\ Len(freelist) > 0) =>
              SlabOf(last'.obj) = Head(freelist)]_vars

\* A dealloc has put a slab that had no free slot at the head of a freelist
\* holding another slab.
C20_Witness ==
    /\ last.op = "dealloc" /\ N >= 2
    /\ Len(freelist) >= 2
    /\ Head(freelist) = SlabOf(last.obj)
    /\ FreeCount(SlabOf(last.obj)) = 1

\* Every slab linked in the freelist is fully free.
AllLinkedFullyFree == \A i \in 1..Len(freelist) : FullyFree(freelist[i])

\* C21: alloc is served from the head of the freelist, so it takes a slot of
\* a fully-free slab only when no partial slab is linked: a successful alloc
\* does `num_full -= 1` and update_min(new num_full) exactly when every
\* linked slab is fully free or a slab had to be acquired (the acquisition
\* itself having added one to num_full); otherwise it leaves num_full and
\* the working set as they were.
C21_AllocFromHead ==
    [][(AllocStep /\ last'.ok) =>
          LET acquired == last'.backing_calls - last'.backing_refused
              decrement == last'.update_min_with >= 0
              s == SlabOf(last'.obj)
          IN  /\ Len(freelist) > 0 => (acquired = 0 /\ s = Head(freelist))
              /\ Len(freelist) = 0 => (acquired = 1 /\ s \notin Live)
              /\ decrement <=> (AllLinkedFullyFree \/ acquired = 1)
              /\ decrement <=> (s \in Live => FullyFree(s))
              /\ (\E i \in 1..Len(freelist) : Partial(freelist[i])) =>
                     Partial(s)
              /\ decrement =>
                     /\ num_full' = num_full + acquired - 1
                     /\ last'.update_min_with = num_full'
                     /\ full_slab_working_set'.min
                            = Min(full_slab_working_set.min, num_full')
              /\ ~decrement =>
                     /\ num_full' = num_full
                     /\ full_slab_working_set' = full_slab_working_set]_vars

\* An alloc has taken a slot of a fully-free slab at the head of a freelist
\* of two fully-free slabs, lowering the window minimum from 2 to 1.
C21_Witness ==
    /\ last.op = "alloc" /\ last.ok /\ last.backing_calls = 0
    /\ last.update_min_with = 1 /\ num_full = 1
    /\ full_slab_working_set.min = 1
    /\ Len(freelist) >= 1 /\ N >= 2

\* What C22 says of one state of the basic cycle.
BasicCycleState ==
    /\ cycle = "allocs" =>
           /\ refcnt < N /\ refcnt = Cardinality(outstanding)
           /\ refcnt = 0 => (total_slabs = 0 /\ freelist = <<>>)
           /\ refcnt > 0 => (total_slabs = 1 /\ Len(freelist) = 1)
    /\ cycle = "deallocs" =>
           /\ total_slabs = 1 /\ Cardinality(Live) = 1
           /\ refcnt = Cardinality(outstanding)
           /\ \A p \in outstanding : SlabOf(p) \in Live
           /\ refcnt = N => (freelist = <<>> /\ num_full = 0)
           /\ refcnt < N => Len(freelist) = 1
           /\ refcnt = 0 => num_full = 1
           /\ refcnt > 0 => num_full = 0

\* C22: the basic cycle.  On a fresh allocator with N objects per slab, N
\* consecutive allocs all succeed out of exactly one slab (the first alloc
\* asks the backing allocator for it, the others ask for nothing), after
\* which the freelist is empty, total_slabs = 1 and refcnt = N; then
\* deallocating all N objects, in any order and at any clock times, ends
\* with refcnt = 0, exactly one slab in the freelist and num_full = 1.
C22_BasicCycle ==
    /\ BasicCycleState
    /\ [][/\ BasicCycleState'
          /\ (cycle = "allocs" /\ AllocStep) =>
                 /\ last'.backing_calls = (IF refcnt = 0 THEN 1 ELSE 0)
                 /\ last'.ok <=> last'.backing_refused = 0
                 /\ refcnt > 0 => last'.ok
                 /\ (last'.ok /\ refcnt + 1 = N) =>
                        /\ cycle' = "deallocs"
                        /\ freelist' = <<>> /\ total_slabs' = 1 /\ refcnt' = N
          /\ (cycle = "deallocs" /\ DeallocStep) =>
                 /\ last'.released = <<>>
                 /\ refcnt' = refcnt - 1
                 /\ cycle' = "deallocs"]_vars

\* The cycle has ended for N = 3: the objects were given back in an order
\* other than the reverse of their allocation, the last dealloc came after
\* the working period and closed the window, and the slab is still cached.
C22_Witness ==
    /\ cycle = "deallocs" /\ N >= 3
    /\ refcnt = 0 /\ Len(freelist) = 1 /\ num_full = 1 /\ total_slabs = 1
    /\ last.op = "dealloc" /\ last.gc_min = 0
    /\ SlotIndexOf(last.obj) = 1

\* What C23 says of one state.
WindowMinimum ==
    alive =>
        /\ 0 <= full_slab_working_set.min
        /\ full_slab_working_set.min <= num_full
        /\ full_slab_working_set.min = window_min_num_full
        /\ num_full <= total_slabs
        /\ num_full >= 0 /\ total_slabs >= 0

\* C23: in every state the minimum the working set has recorded is at most
\* num_full and is the least value num_full had after any operation since
\* the window began.  Hence the reclamation loop, which releases that many
\* slabs, takes each of them from a freelist that is not empty, takes only
\* fully-free slabs, and never brings num_full or total_slabs below zero.
C23_MinimumIsExact ==
    /\ WindowMinimum
    /\ [][/\ WindowMinimum'
          /\ (DeallocStep /\ last'.gc_min >= 0) =>
                 /\ last'.gc_min = full_slab_working_set.min
                 /\ last'.gc_min <= num_full
                 /\ Len(last'.released) = last'.gc_min
                 /\ Len(last'.released) <= Len(freelist)
                 /\ \A k \in 1..Len(last'.released) :
                        /\ last'.released[k].slab # NULL
                        /\ last'.released[k].live
                        /\ last'.released[k].was_tail
                        /\ last'.released[k].free_count = N
                 /\ num_full' = num_full + 1 - last'.gc_min
                 /\ total_slabs' = total_slabs - last'.gc_min
                 /\ full_slab_working_set'.min = num_full']_vars

\* In a window that began with two fully-free slabs an alloc has lowered the
\* minimum to 1 and a dealloc has raised num_full above it again.
C23_Witness ==
    /\ alive /\ last.op = "dealloc"
    /\ full_slab_working_set.min >= 1
    /\ num_full > full_slab_working_set.min
    /\ window_min_num_full = full_slab_working_set.min

\* C24: a new slab is requested from the family only when no live slab has
\* a free slot: just before every request (granted or refused) the freelist
\* is empty, refcnt = N * total_slabs and num_full = 0; only alloc makes a
\* request, at most one, and it raises total_slabs by at most 1.
C24_AcquireOnlyWhenFull ==
    [][/\ last'.backing_calls >= 1 =>
              /\ AllocStep
              /\ last'.backing_calls = 1
              /\ freelist = <<>>
              /\ \A s \in Live : FreeCount(s) = 0
              /\ refcnt = N * total_slabs
              /\ num_full = 0
       /\ AllocStep =>
              /\ total_slabs' = total_slabs
                                  + last'.backing_calls - last'.backing_refused
              /\ total_slabs' <= total_slabs + 1
              /\ Live \subseteq Live'
              /\ Cardinality(Live') = total_slabs'
       /\ ~AllocStep => (last'.backing_calls = 0 /\ Live' \subseteq Live)]_vars

\* An alloc has acquired a further slab while every slot of the slab it
\* already had was in the caller's hands.
C24_Witness ==
    /\ last.op = "alloc" /\ last.ok
    /\ last.backing_calls = 1 /\ last.backing_refused = 0
    /\ last.from_total_slabs >= 1 /\ N >= 2
    /\ last.from_refcnt = N * last.from_total_slabs
    /\ total_slabs = last.from_total_slabs + 1

\* C25: reclamation never releases every cached slab.  Right after a
\* dealloc that made a slab fully free, whether or not a window closed and
\* slabs were released, num_full >= 1 and the freelist is not empty, with a
\* fully-free slab at its tail; the alloc that follows is served without a
\* request to the backing allocator.
C25_OneSlabStaysCached ==
    [][/\ (DeallocStep /\ FreeCount(DeallocSlab) + 1 = N) =>
              /\ last'.gc_ran
              /\ num_full' >= 1
              /\ Len(freelist') >= 1
              /\ Len(last'.released) <= num_full
              /\ LET t == freelist'[Len(freelist')]
                 IN  slabs'[t].live /\ free_count(slabs', t) = N
       /\ (AllocStep /\ last.op = "dealloc" /\ last.gc_ran) =>
              /\ last'.ok
              /\ last'.backing_calls = 0
              /\ SlabOf(last'.obj) = Head(freelist)]_vars

\* A dealloc has closed a window whose minimum was every slab cached before
\* it: two slabs were released, the slab just freed among them, and one
\* fully-free slab stays.
C25_Witness ==
    /\ alive /\ last.op = "dealloc" /\ last.gc_ran
    /\ Len(last.released) >= 2
    /\ last.released[1].slab = SlabOf(last.obj)
    /\ num_full = 1 /\ Len(freelist) = 1

====
